---- MODULE Spec2Model ----
(***************************************************************************)
(* Model of the asynchronous synthesis job machinery of flask_app.py:      *)
(* the submission handler synthesize(), the background worker              *)
(* _run_synthesis(), the job registry `jobs`, the admission slot           *)
(* `active_job_id` with its lock `active_lock`, the per-job PCM queue and  *)
(* the stream consumer generate() of stream_audio().                       *)
(*                                                                         *)
(* The server is modelled after a successful load_model (model_loaded is   *)
(* true and tts is set).  Every statement of the source that reads or      *)
(* writes shared state (a job record, the slot, a queue) is one step;      *)
(* statements that touch only thread-local state are merged into the       *)
(* neighbouring step.  External calls (encode_reference, get_preset_voice, *)
(* split_text_into_chunks, infer, join_audio_chunks, sf.write) return one  *)
(* of their possible results or raise.                                     *)
(*                                                                         *)
(* Three specifications share the actions:                                 *)
(*   Spec        two submissions racing each other, and their workers      *)
(*   SpecStream  one submission, its worker and the clients that stream it *)
(*   FairSpec    one submission, its worker and the submissions that find  *)
(*               it busy, under fair scheduling                            *)
(***************************************************************************)
EXTENDS Integers, Sequences, FiniteSets, TLC

\* ------------------------------------------------------------------------
\* Bounds
\* ------------------------------------------------------------------------
MaxJobs == 2          \* job ids ever handed out by uuid4()
NumRequests == 2      \* calls of POST /api/synthesize, each on its own thread
MaxChunks == 2        \* largest number of fragments a text splits into
QueueMaxsize == 2     \* capacity of a job's pcm_queue (200 in the source)
NumConsumers == 2     \* clients reading GET /api/stream/<job_id>

JobIds == 1..MaxJobs
Requests == 1..NumRequests
Consumers == 1..NumConsumers

None == "None"      \* the None of a record field or a file path
NoJob == 0           \* active_job_id = NoJob, and "no job" in a local
Unlocked == 0        \* active_lock not held

\* ------------------------------------------------------------------------
\* Values
\* ------------------------------------------------------------------------
\* progress strings, as <<text, i, total>>
Progress(text, i, total) == <<text, i, total>>
Queued == Progress("Queued", 0, 0)

\* items of a pcm_queue and segments of the final file
Audio(i) == <<"audio", i>>
Silence == <<"silence", 0>>
EndMarker == <<"end", 0>>

\* request bodies of POST /api/synthesize: text, voice_id, uploaded file
Texts == {"", " ", "xin chao"}
Voices == {"", "Binh", "nobody"}
PresetVoices == {"Binh"}
\* An upload takes precedence over voice_id (lines 281, 292), so the bodies
\* that carry an upload name no voice.
Bodies ==
    {b \in [text : Texts, voice_id : Voices, ref_audio_file : BOOLEAN] :
        b.ref_audio_file => b.voice_id = ""}

\* str.strip() on the request texts
Strip(text) == IF text = " " THEN "" ELSE text

\* the record inserted by synthesize()
NewJob ==
    [status |-> "pending", progress |-> Queued,
     audio_path |-> None, error |-> None,
     chunks_total |-> 0, chunks_done |-> 0]

VARIABLES
    jobs,            \* registry: job id -> record
    active_job_id,   \* admission slot: a job id or NoJob
    active_lock,     \* Unlocked, or the request thread holding the lock
    pcm_queue,       \* job id -> contents of job["pcm_queue"]
    pushed,          \* job id -> every item a put() enqueued, in order
    dropped,         \* job id -> some put() of the worker raised queue.Full
    ref_files,       \* job ids whose temporary reference file exists
    audio_files,     \* job id -> segments of the WAV written by sf.write
    hpc, hjob, hresp,            \* synthesize(): position, job_id, response
    wargs,                       \* _run_synthesis arguments per job
    wpc, total, wi, all_wavs, exc, released,   \* _run_synthesis locals per job
    cjob,                        \* stream consumers: job attached to, or NoJob
    ppc, pjob, presp,            \* polling client: position, job id, response
    cancelled                    \* job id -> NotCancelled, or chunks_done at cancel()

hvars == <<hpc, hjob, hresp>>
wvars == <<wpc, total, wi, all_wavs, exc, released>>
pvars == <<ppc, pjob, presp, cancelled>>
vars == <<jobs, active_job_id, active_lock, pcm_queue, pushed, dropped,
          ref_files, audio_files, hpc, hjob, hresp, wargs,
          wpc, total, wi, all_wavs, exc, released, cjob,
          ppc, pjob, presp, cancelled>>

\* what the polling client holds before its request is answered
NoPoll == [route |-> "none", code |-> 0, body |-> << >>]

\* cancelled flag of a job that nobody cancelled
NotCancelled == 0 - 1

NoResp == [code |-> 0, body |-> "none", busy |-> FALSE,
           active_progress |-> Queued, job_id |-> NoJob]

Init ==
    /\ jobs = << >>
    /\ active_job_id = NoJob
    /\ active_lock = Unlocked
    /\ pcm_queue = [j \in JobIds |-> << >>]
    /\ pushed = [j \in JobIds |-> << >>]
    /\ dropped = [j \in JobIds |-> FALSE]
    /\ ref_files = {}
    /\ audio_files = [j \in JobIds |-> << >>]
    /\ hpc = [h \in Requests |-> "new"]
    /\ hjob = [h \in Requests |-> NoJob]
    /\ hresp = [h \in Requests |-> NoResp]
    /\ wargs = [j \in JobIds |->
                  [text |-> "", voice_id |-> "", ref_audio_path |-> None]]
    /\ wpc = [j \in JobIds |-> "unborn"]
    /\ total = [j \in JobIds |-> 0]
    /\ wi = [j \in JobIds |-> 0]
    /\ all_wavs = [j \in JobIds |-> << >>]
    /\ exc = [j \in JobIds |-> None]
    /\ released = [j \in JobIds |-> "no"]
    /\ cjob = [c \in Consumers |-> NoJob]
    /\ ppc = "idle"
    /\ pjob = NoJob
    /\ presp = NoPoll
    /\ cancelled = [j \in JobIds |-> NotCancelled]

Created == DOMAIN jobs

\* Variant of IsActive: the busy check looks for "processing" only
IsActiveProcessingOnly(j) == j \in Created /\ jobs[j].status = "processing"

\* dict.get(job, {}).get("status") in ("pending", "processing")
IsActive(j) == j \in Created /\ jobs[j].status \in {"pending", "processing"}

\* ------------------------------------------------------------------------
\* synthesize(): POST /api/synthesize
\* ------------------------------------------------------------------------
BusyResp(p) == [code |-> 503, body |-> "busy", busy |-> TRUE,
                active_progress |-> p, job_id |-> NoJob]
TextRequiredResp == [code |-> 400, body |-> "Text is required", busy |-> FALSE,
                     active_progress |-> Queued, job_id |-> NoJob]
JobIdResp(j) == [code |-> 200, body |-> "job_id", busy |-> FALSE,
                 active_progress |-> Queued, job_id |-> j]

\* uuid.uuid4(): an id no job has had
FreshId == Cardinality(Created) + 1

\* requests that passed the busy check and have not inserted their record
Admitting == {h \in Requests : hpc[h] = "parse"}

\* lines 157-160: take the lock, read the slot and the active job's status.
\* A busy request keeps the lock until it has built its response.  Requests
\* are numbered in the order in which they take the lock.
HCheck(h) ==
    /\ hpc[h] = "new"
    /\ \A g \in Requests : g < h => hpc[g] # "new"
    /\ active_lock = Unlocked
    /\ IF active_job_id # NoJob /\ IsActive(active_job_id)
       THEN /\ hpc' = [hpc EXCEPT ![h] = "busy"]
            /\ active_lock' = h
       ELSE /\ Cardinality(Created) + Cardinality(Admitting) < MaxJobs
            /\ hpc' = [hpc EXCEPT ![h] = "parse"]
            /\ active_lock' = Unlocked
    /\ UNCHANGED <<pvars, jobs, active_job_id, pcm_queue, pushed, dropped, ref_files,
                   audio_files, hjob, hresp, wargs, wvars, cjob>>

\* lines 161-165: the busy response reads the active job's progress and
\* leaves the critical section
HBusyResponse(h) ==
    /\ hpc[h] = "busy"
    /\ active_lock = h
    /\ hresp' = [hresp EXCEPT ![h] = BusyResp(jobs[active_job_id].progress)]
    /\ hpc' = [hpc EXCEPT ![h] = "returned"]
    /\ active_lock' = Unlocked
    /\ UNCHANGED <<pvars, jobs, active_job_id, pcm_queue, pushed, dropped, ref_files,
                   audio_files, hjob, wargs, wvars, cjob>>

\* lines 167-183: an empty text is answered with 400
HTextRequired(h) ==
    /\ hpc[h] = "parse"
    /\ \E body \in Bodies : Strip(body.text) = ""
    /\ hresp' = [hresp EXCEPT ![h] = TextRequiredResp]
    /\ hpc' = [hpc EXCEPT ![h] = "returned"]
    /\ UNCHANGED <<pvars, jobs, active_job_id, active_lock, pcm_queue, pushed, dropped,
                   ref_files, audio_files, hjob, wargs, wvars, cjob>>

\* Variant of HInsert: the "if not text" test of line 182 is missing
HInsertAnyText(h) ==
    /\ hpc[h] = "parse"
    /\ \E body \in Bodies :
         LET job_id == FreshId IN
         /\ ref_files' = IF body.ref_audio_file THEN ref_files \cup {job_id}
                                                ELSE ref_files
         /\ jobs' = (job_id :> NewJob) @@ jobs
         /\ wargs' = [wargs EXCEPT ![job_id] =
                        [text |-> Strip(body.text),
                         voice_id |-> body.voice_id,
                         ref_audio_path |-> IF body.ref_audio_file
                                            THEN "ref.wav" ELSE None]]
         /\ hjob' = [hjob EXCEPT ![h] = job_id]
    /\ hpc' = [hpc EXCEPT ![h] = "inserted"]
    /\ UNCHANGED <<pvars, active_job_id, active_lock, pcm_queue, pushed, dropped,
                   audio_files, hresp, wvars, cjob>>

\* lines 167-199: parse the request, save the uploaded reference audio to a
\* temporary file, and insert a pending record under a fresh id
HInsert(h) ==
    /\ hpc[h] = "parse"
    /\ \E body \in Bodies :
         LET job_id == FreshId IN
         /\ Strip(body.text) # ""
         /\ ref_files' = IF body.ref_audio_file THEN ref_files \cup {job_id}
                                                ELSE ref_files
         /\ jobs' = (job_id :> NewJob) @@ jobs
         /\ wargs' = [wargs EXCEPT ![job_id] =
                        [text |-> Strip(body.text),
                         voice_id |-> body.voice_id,
                         ref_audio_path |-> IF body.ref_audio_file
                                            THEN "ref.wav" ELSE None]]
         /\ hjob' = [hjob EXCEPT ![h] = job_id]
    /\ hpc' = [hpc EXCEPT ![h] = "inserted"]
    /\ UNCHANGED <<pvars, active_job_id, active_lock, pcm_queue, pushed, dropped,
                   audio_files, hresp, wvars, cjob>>

\* lines 201-202: with active_lock: active_job_id = job_id
HSetActive(h) ==
    /\ hpc[h] = "inserted"
    /\ active_lock = Unlocked
    /\ active_job_id' = hjob[h]
    /\ hpc' = [hpc EXCEPT ![h] = "activated"]
    /\ UNCHANGED <<pvars, jobs, active_lock, pcm_queue, pushed, dropped, ref_files,
                   audio_files, hjob, hresp, wargs, wvars, cjob>>

\* lines 204-211: start the worker thread and return the job id
HStartThread(h) ==
    /\ hpc[h] = "activated"
    /\ wpc' = [wpc EXCEPT ![hjob[h]] = "start"]
    /\ hresp' = [hresp EXCEPT ![h] = JobIdResp(hjob[h])]
    /\ hpc' = [hpc EXCEPT ![h] = "returned"]
    /\ UNCHANGED <<pvars, jobs, active_job_id, active_lock, pcm_queue, pushed, dropped,
                   ref_files, audio_files, hjob, wargs,
                   total, wi, all_wavs, exc, released, cjob>>

\* ------------------------------------------------------------------------
\* _run_synthesis(): the background worker of one job
\* ------------------------------------------------------------------------
SetField(j, f, v) == jobs' = [jobs EXCEPT ![j] = [@ EXCEPT ![f] = v]]

\* Variant of Put: queue.Queue.put(item) without a timeout, which waits for
\* room as long as it takes
PutBlocking(j, item) ==
    /\ Len(pcm_queue[j]) < QueueMaxsize
    /\ pcm_queue' = [pcm_queue EXCEPT ![j] = Append(@, item)]
    /\ pushed' = [pushed EXCEPT ![j] = Append(@, item)]
    /\ UNCHANGED dropped

\* queue.Queue.put(item, timeout=...): enqueue when there is room; a queue
\* still full at the timeout raises queue.Full, which every caller swallows
Put(j, item) ==
    IF Len(pcm_queue[j]) < QueueMaxsize
    THEN /\ pcm_queue' = [pcm_queue EXCEPT ![j] = Append(@, item)]
         /\ pushed' = [pushed EXCEPT ![j] = Append(@, item)]
         /\ UNCHANGED dropped
    ELSE /\ dropped' = [dropped EXCEPT ![j] = TRUE]
         /\ UNCHANGED <<pcm_queue, pushed>>

\* an exception raised inside the try block: control goes to the handler
Raise(j, e) ==
    /\ wpc' = [wpc EXCEPT ![j] = "except"]
    /\ exc' = [exc EXCEPT ![j] = e]

Goto(j, l) == wpc' = [wpc EXCEPT ![j] = l]

\* join_audio_chunks(all_wavs, sr, silence_p=0.15): the waveforms in order
\* with one silence gap between consecutive ones
RECURSIVE join_audio_chunks(_)
join_audio_chunks(wavs) ==
    IF wavs = << >> THEN << >>
    ELSE IF Len(wavs) = 1 THEN <<Audio(wavs[1])>>
    ELSE <<Audio(wavs[1]), Silence>> \o join_audio_chunks(Tail(wavs))

\* lines 273-274
WStart(j) ==
    /\ wpc[j] = "start"
    /\ SetField(j, "status", "processing")
    /\ Goto(j, "resolve")
    /\ UNCHANGED <<pvars, active_job_id, active_lock, pcm_queue, pushed, dropped,
                   ref_files, audio_files, hvars, wargs,
                   total, wi, all_wavs, exc, released, cjob>>

\* lines 281-282, 292-293: which reference the job uses
WResolve(j) ==
    /\ wpc[j] = "resolve"
    /\ IF wargs[j].ref_audio_path # None
       THEN /\ SetField(j, "progress", Progress("Encoding reference audio...", 0, 0))
            /\ Goto(j, "encode")
       ELSE IF wargs[j].voice_id # ""
       THEN /\ SetField(j, "progress", Progress("Loading preset voice...", 0, 0))
            /\ Goto(j, "preset")
       ELSE /\ UNCHANGED jobs
            /\ Goto(j, "split")
    /\ UNCHANGED <<pvars, active_job_id, active_lock, pcm_queue, pushed, dropped,
                   ref_files, audio_files, hvars, wargs,
                   total, wi, all_wavs, exc, released, cjob>>

\* lines 283-291: encode_reference returns, and the temporary file is
\* unlinked, or it raises
WEncodeReference(j) ==
    /\ wpc[j] = "encode"
    /\ \/ /\ ref_files' = ref_files \ {j}
          /\ Goto(j, "split")
          /\ UNCHANGED exc
       \/ /\ Raise(j, "encode_reference failed")
          /\ UNCHANGED ref_files
    /\ UNCHANGED <<pvars, jobs, active_job_id, active_lock, pcm_queue, pushed, dropped,
                   audio_files, hvars, wargs, total, wi, all_wavs, released, cjob>>

\* lines 294-298: get_preset_voice returns the preset, or raises for a
\* voice the synthesizer does not know
WGetPresetVoice(j) ==
    /\ wpc[j] = "preset"
    /\ IF wargs[j].voice_id \in PresetVoices
       THEN Goto(j, "split") /\ UNCHANGED exc
       ELSE Raise(j, "Voice not found")
    /\ UNCHANGED <<pvars, jobs, active_job_id, active_lock, pcm_queue, pushed, dropped,
                   ref_files, audio_files, hvars, wargs,
                   total, wi, all_wavs, released, cjob>>

\* lines 304-307: split_text_into_chunks returns the fragments, or raises
WSplit(j) ==
    /\ wpc[j] = "split"
    /\ \/ \E n \in 0..MaxChunks :
            /\ total' = [total EXCEPT ![j] = n]
            /\ SetField(j, "chunks_total", n)
            /\ Goto(j, "loop")
            /\ UNCHANGED exc
       \/ /\ Raise(j, "split_text_into_chunks failed")
          /\ UNCHANGED <<jobs, total>>
    /\ UNCHANGED <<pvars, active_job_id, active_lock, pcm_queue, pushed, dropped,
                   ref_files, audio_files, hvars, wargs,
                   wi, all_wavs, released, cjob>>

\* lines 309-310: the next fragment
WLoop(j) ==
    /\ wpc[j] = "loop"
    /\ wi[j] < total[j]
    /\ wi' = [wi EXCEPT ![j] = @ + 1]
    /\ SetField(j, "progress", Progress("Generating chunk", wi[j] + 1, total[j]))
    /\ Goto(j, "infer")
    /\ UNCHANGED <<pvars, active_job_id, active_lock, pcm_queue, pushed, dropped,
                   ref_files, audio_files, hvars, wargs,
                   total, all_wavs, exc, released, cjob>>

\* Variant of WInfer: chunks_done counts the fragments still to come
WInferCountsRemaining(j) ==
    /\ wpc[j] = "infer"
    /\ \E chunk_wav \in {"wav", "None", "empty", "raise"} :
         CASE chunk_wav = "wav" ->
                /\ all_wavs' = [all_wavs EXCEPT ![j] = Append(@, wi[j])]
                /\ SetField(j, "chunks_done", total[j] - wi[j])
                /\ Goto(j, "putpcm")
                /\ UNCHANGED exc
           [] chunk_wav \in {"None", "empty"} ->
                /\ Goto(j, "loop")
                /\ UNCHANGED <<all_wavs, jobs, exc>>
           [] chunk_wav = "raise" ->
                /\ Raise(j, "infer failed")
                /\ UNCHANGED <<all_wavs, jobs>>
    /\ UNCHANGED <<pvars, active_job_id, active_lock, pcm_queue, pushed, dropped,
                   ref_files, audio_files, hvars, wargs,
                   total, wi, released, cjob>>

\* lines 311-319: infer returns a waveform, None or an empty waveform, or
\* raises
WInfer(j) ==
    /\ wpc[j] = "infer"
    /\ \E chunk_wav \in {"wav", "None", "empty", "raise"} :
         CASE chunk_wav = "wav" ->
                /\ all_wavs' = [all_wavs EXCEPT ![j] = Append(@, wi[j])]
                /\ SetField(j, "chunks_done", wi[j])
                /\ Goto(j, "putpcm")
                /\ UNCHANGED exc
           [] chunk_wav \in {"None", "empty"} ->
                /\ Goto(j, "loop")
                /\ UNCHANGED <<all_wavs, jobs, exc>>
           [] chunk_wav = "raise" ->
                /\ Raise(j, "infer failed")
                /\ UNCHANGED <<all_wavs, jobs>>
    /\ UNCHANGED <<pvars, active_job_id, active_lock, pcm_queue, pushed, dropped,
                   ref_files, audio_files, hvars, wargs,
                   total, wi, released, cjob>>

\* Variant of WPutPcm: silence follows every fragment, the last included
WPutPcmAlwaysSilence(j) ==
    /\ wpc[j] = "putpcm"
    /\ Put(j, Audio(wi[j]))
    /\ Goto(j, "putsilence")
    /\ UNCHANGED <<pvars, jobs, active_job_id, active_lock, ref_files, audio_files,
                   hvars, wargs, total, wi, all_wavs, exc, released, cjob>>

\* lines 321-327: push the fragment's PCM
WPutPcm(j) ==
    /\ wpc[j] = "putpcm"
    /\ Put(j, Audio(wi[j]))
    /\ Goto(j, IF wi[j] < total[j] THEN "putsilence" ELSE "loop")
    /\ UNCHANGED <<pvars, jobs, active_job_id, active_lock, ref_files, audio_files,
                   hvars, wargs, total, wi, all_wavs, exc, released, cjob>>

\* Variant of WPutSilence: the gap between two fragments is marked with
\* put(None)
WPutSilenceAsEnd(j) ==
    /\ wpc[j] = "putsilence"
    /\ Put(j, EndMarker)
    /\ Goto(j, "loop")
    /\ UNCHANGED <<pvars, jobs, active_job_id, active_lock, ref_files, audio_files,
                   hvars, wargs, total, wi, all_wavs, exc, released, cjob>>

\* lines 328-332: push the silence that follows a fragment other than the
\* last
WPutSilence(j) ==
    /\ wpc[j] = "putsilence"
    /\ Put(j, Silence)
    /\ Goto(j, "loop")
    /\ UNCHANGED <<pvars, jobs, active_job_id, active_lock, ref_files, audio_files,
                   hvars, wargs, total, wi, all_wavs, exc, released, cjob>>

\* Variant of WPutEnd: the end marker is pushed only when there is audio,
\* after the test of line 340
WPutEndIfAudio(j) ==
    /\ wpc[j] = "loop"
    /\ wi[j] >= total[j]
    /\ IF all_wavs[j] # << >>
       THEN Put(j, EndMarker)
       ELSE UNCHANGED <<pcm_queue, pushed, dropped>>
    /\ Goto(j, "checkwavs")
    /\ UNCHANGED <<pvars, jobs, active_job_id, active_lock, ref_files, audio_files,
                   hvars, wargs, total, wi, all_wavs, exc, released, cjob>>

\* lines 309, 334-338: the loop is over; signal the end of the PCM stream
WPutEnd(j) ==
    /\ wpc[j] = "loop"
    /\ wi[j] >= total[j]
    /\ Put(j, EndMarker)
    /\ Goto(j, "checkwavs")
    /\ UNCHANGED <<pvars, jobs, active_job_id, active_lock, ref_files, audio_files,
                   hvars, wargs, total, wi, all_wavs, exc, released, cjob>>

\* lines 340-341
WNoAudioStatus(j) ==
    /\ wpc[j] = "checkwavs"
    /\ all_wavs[j] = << >>
    /\ SetField(j, "status", "error")
    /\ Goto(j, "noaudio")
    /\ UNCHANGED <<pvars, active_job_id, active_lock, pcm_queue, pushed, dropped,
                   ref_files, audio_files, hvars, wargs,
                   total, wi, all_wavs, exc, released, cjob>>

\* Variant of WNoAudioError: the return after "No audio generated" is missing
WNoAudioErrorNoReturn(j) ==
    /\ wpc[j] = "noaudio"
    /\ SetField(j, "error", "No audio generated")
    /\ Goto(j, "join")
    /\ UNCHANGED <<pvars, active_job_id, active_lock, pcm_queue, pushed, dropped,
                   ref_files, audio_files, hvars, wargs,
                   total, wi, all_wavs, exc, released, cjob>>

\* lines 342-343
WNoAudioError(j) ==
    /\ wpc[j] = "noaudio"
    /\ SetField(j, "error", "No audio generated")
    /\ Goto(j, "finally")
    /\ UNCHANGED <<pvars, active_job_id, active_lock, pcm_queue, pushed, dropped,
                   ref_files, audio_files, hvars, wargs,
                   total, wi, all_wavs, exc, released, cjob>>

\* Variant of WJoinProgress: audio_path is assigned before the file is written
WJoinProgressSetsPath(j) ==
    /\ wpc[j] = "checkwavs"
    /\ all_wavs[j] # << >>
    /\ jobs' = [jobs EXCEPT ![j] =
                  [@ EXCEPT !.progress = Progress("Joining chunks", 0, total[j]),
                            !.audio_path = "tmp.wav"]]
    /\ Goto(j, "join")
    /\ UNCHANGED <<pvars, active_job_id, active_lock, pcm_queue, pushed, dropped,
                   ref_files, audio_files, hvars, wargs,
                   total, wi, all_wavs, exc, released, cjob>>

\* line 345
WJoinProgress(j) ==
    /\ wpc[j] = "checkwavs"
    /\ all_wavs[j] # << >>
    /\ SetField(j, "progress", Progress("Joining chunks", 0, total[j]))
    /\ Goto(j, "join")
    /\ UNCHANGED <<pvars, active_job_id, active_lock, pcm_queue, pushed, dropped,
                   ref_files, audio_files, hvars, wargs,
                   total, wi, all_wavs, exc, released, cjob>>

\* lines 346-351: join_audio_chunks returns the joined audio and sf.write
\* writes it to a temporary WAV file, or one of the two raises
WJoinWrite(j) ==
    /\ wpc[j] = "join"
    /\ \/ /\ audio_files' = [audio_files EXCEPT ![j] = join_audio_chunks(all_wavs[j])]
          /\ Goto(j, "setpath")
          /\ UNCHANGED exc
       \/ /\ \E e \in {"join_audio_chunks failed", "sf.write failed"} : Raise(j, e)
          /\ UNCHANGED audio_files
    /\ UNCHANGED <<pvars, jobs, active_job_id, active_lock, pcm_queue, pushed, dropped,
                   ref_files, hvars, wargs, total, wi, all_wavs, released, cjob>>

\* line 353
WSetAudioPath(j) ==
    /\ wpc[j] = "setpath"
    /\ SetField(j, "audio_path", "tmp.wav")
    /\ Goto(j, "setdone")
    /\ UNCHANGED <<pvars, active_job_id, active_lock, pcm_queue, pushed, dropped,
                   ref_files, audio_files, hvars, wargs,
                   total, wi, all_wavs, exc, released, cjob>>

\* line 354
WSetDone(j) ==
    /\ wpc[j] = "setdone"
    /\ SetField(j, "status", "done")
    /\ Goto(j, "doneprogress")
    /\ UNCHANGED <<pvars, active_job_id, active_lock, pcm_queue, pushed, dropped,
                   ref_files, audio_files, hvars, wargs,
                   total, wi, all_wavs, exc, released, cjob>>

\* line 355
WDoneProgress(j) ==
    /\ wpc[j] = "doneprogress"
    /\ SetField(j, "progress", Progress("Done", 0, total[j]))
    /\ Goto(j, "finally")
    /\ UNCHANGED <<pvars, active_job_id, active_lock, pcm_queue, pushed, dropped,
                   ref_files, audio_files, hvars, wargs,
                   total, wi, all_wavs, exc, released, cjob>>

\* Variant of WExceptStatus: the handler does not set the status
WExceptStatusSkip(j) ==
    /\ wpc[j] = "except"
    /\ Goto(j, "excepterror")
    /\ UNCHANGED <<pvars, jobs, active_job_id, active_lock, pcm_queue, pushed, dropped,
                   ref_files, audio_files, hvars, wargs,
                   total, wi, all_wavs, exc, released, cjob>>

\* lines 357-358
WExceptStatus(j) ==
    /\ wpc[j] = "except"
    /\ SetField(j, "status", "error")
    /\ Goto(j, "excepterror")
    /\ UNCHANGED <<pvars, active_job_id, active_lock, pcm_queue, pushed, dropped,
                   ref_files, audio_files, hvars, wargs,
                   total, wi, all_wavs, exc, released, cjob>>

\* line 359
WExceptError(j) ==
    /\ wpc[j] = "excepterror"
    /\ SetField(j, "error", exc[j])
    /\ Goto(j, "exceptputend")
    /\ UNCHANGED <<pvars, active_job_id, active_lock, pcm_queue, pushed, dropped,
                   ref_files, audio_files, hvars, wargs,
                   total, wi, all_wavs, exc, released, cjob>>

\* lines 360-364: signal the end of the stream on error too
WExceptPutEnd(j) ==
    /\ wpc[j] = "exceptputend"
    /\ Put(j, EndMarker)
    /\ Goto(j, "finally")
    /\ UNCHANGED <<pvars, jobs, active_job_id, active_lock, ref_files, audio_files,
                   hvars, wargs, total, wi, all_wavs, exc, released, cjob>>

\* Variant of WRelease: the worker ends without releasing the slot
WReleaseKeep(j) ==
    /\ wpc[j] = "finally"
    /\ active_lock = Unlocked
    /\ released' = [released EXCEPT ![j] = "stale"]
    /\ Goto(j, "finished")
    /\ UNCHANGED <<pvars, jobs, active_job_id, active_lock, pcm_queue, pushed, dropped,
                   ref_files, audio_files, hvars, wargs, total, wi, all_wavs,
                   exc, cjob>>

\* Variant of WRelease: the slot is cleared whatever it holds
WReleaseAlways(j) ==
    /\ wpc[j] = "finally"
    /\ active_lock = Unlocked
    /\ active_job_id' = NoJob
    /\ released' = [released EXCEPT ![j] = "cleared"]
    /\ Goto(j, "finished")
    /\ UNCHANGED <<pvars, jobs, active_lock, pcm_queue, pushed, dropped, ref_files,
                   audio_files, hvars, wargs, total, wi, all_wavs, exc, cjob>>

\* Variant of WRelease: the finished job's record is evicted from the registry
WReleaseEvict(j) ==
    /\ wpc[j] = "finally"
    /\ active_lock = Unlocked
    /\ IF active_job_id = j
       THEN /\ active_job_id' = NoJob
            /\ released' = [released EXCEPT ![j] = "cleared"]
       ELSE /\ UNCHANGED active_job_id
            /\ released' = [released EXCEPT ![j] = "stale"]
    /\ jobs' = [k \in Created \ {j} |-> jobs[k]]
    /\ Goto(j, "finished")
    /\ UNCHANGED <<pvars, active_lock, pcm_queue, pushed, dropped, ref_files,
                   audio_files, hvars, wargs, total, wi, all_wavs, exc, cjob>>

\* lines 365-368: with active_lock: clear the slot if it is still this job's
WRelease(j) ==
    /\ wpc[j] = "finally"
    /\ active_lock = Unlocked
    /\ IF active_job_id = j
       THEN /\ active_job_id' = NoJob
            /\ released' = [released EXCEPT ![j] = "cleared"]
       ELSE /\ UNCHANGED active_job_id
            /\ released' = [released EXCEPT ![j] = "stale"]
    /\ Goto(j, "finished")
    /\ UNCHANGED <<pvars, jobs, active_lock, pcm_queue, pushed, dropped, ref_files,
                   audio_files, hvars, wargs, total, wi, all_wavs, exc, cjob>>

\* ------------------------------------------------------------------------
\* stream_audio(): GET /api/stream/<job_id>
\* ------------------------------------------------------------------------
\* lines 241-247, 259: a request for a known job gets the generator
SAttach(c) ==
    /\ cjob[c] = NoJob
    /\ \E j \in Created : cjob' = [cjob EXCEPT ![c] = j]
    /\ UNCHANGED <<pvars, jobs, active_job_id, active_lock, pcm_queue, pushed, dropped,
                   ref_files, audio_files, hvars, wargs, wvars>>

\* lines 252, 255-257: an item is dequeued; the end marker ends the stream
SGet(c) ==
    /\ cjob[c] # NoJob
    /\ pcm_queue[cjob[c]] # << >>
    /\ pcm_queue' = [pcm_queue EXCEPT ![cjob[c]] = Tail(@)]
    /\ cjob' = [cjob EXCEPT ![c] = IF Head(pcm_queue[cjob[c]]) = EndMarker
                                   THEN NoJob ELSE @]
    /\ UNCHANGED <<pvars, jobs, active_job_id, active_lock, pushed, dropped,
                   ref_files, audio_files, hvars, wargs, wvars>>

\* Variant of SIdleTimeout: on queue.Empty the generator waits again
SIdleTimeoutRetry(c) ==
    /\ cjob[c] # NoJob
    /\ pcm_queue[cjob[c]] = << >>
    /\ UNCHANGED vars

\* lines 252-254: nothing arrives for 60 seconds
SIdleTimeout(c) ==
    /\ cjob[c] # NoJob
    /\ pcm_queue[cjob[c]] = << >>
    /\ cjob' = [cjob EXCEPT ![c] = NoJob]
    /\ UNCHANGED <<pvars, jobs, active_job_id, active_lock, pcm_queue, pushed, dropped,
                   ref_files, audio_files, hvars, wargs, wvars>>

\* ------------------------------------------------------------------------
\* job_status() and get_audio(): a client polling the read endpoints
\* ------------------------------------------------------------------------
\* jsonify({"error": message}), 404
NotFoundResp(route, message) ==
    [route |-> route, code |-> 404, body |-> ("error" :> message)]

\* the resp dict of job_status() while it is being filled; code 0 = not sent
Filling(body) == [route |-> "status", code |-> 0, body |-> body]

\* Python truthiness of job["error"]: None and "" are false
Truthy(v) == v # None /\ v # ""

\* Variant of job_status: the lookup is jobs.setdefault(job_id, <new record>)
job_status_setdefault(job_id) ==
    /\ ppc = "idle"
    /\ pjob' = job_id
    /\ jobs' = IF job_id \in Created THEN jobs ELSE (job_id :> NewJob) @@ jobs
    /\ presp' = Filling("status" :> jobs'[job_id].status
                        @@ "progress" :> jobs'[job_id].progress)
    /\ ppc' = "status221"
    /\ UNCHANGED <<active_job_id, active_lock, pcm_queue, pushed, dropped,
                   ref_files, audio_files, hvars, wargs, wvars, cjob, cancelled>>

\* lines 216-220: look the job up; an unknown id is answered with 404,
\* otherwise resp starts with the status and the progress read now
job_status(job_id) ==
    /\ ppc = "idle"
    /\ pjob' = job_id
    /\ IF job_id \notin Created
       THEN /\ presp' = NotFoundResp("status", "Job not found")
            /\ ppc' = "idle"
       ELSE /\ presp' = Filling("status" :> jobs[job_id].status
                               @@ "progress" :> jobs[job_id].progress)
            /\ ppc' = "status221"
    /\ UNCHANGED <<jobs, active_job_id, active_lock, pcm_queue, pushed, dropped,
                   ref_files, audio_files, hvars, wargs, wvars, cjob, cancelled>>

\* lines 221-224: the status is read again for audio_url, then the error
job_status_error ==
    /\ ppc = "status221"
    /\ LET job == jobs[pjob]
           audio_url == IF job.status = "done"
                        THEN "audio_url" :> <<"/api/audio", pjob>> ELSE << >>
           error == IF Truthy(job.error)
                    THEN "error" :> job.error ELSE << >>
       IN presp' = Filling(presp.body @@ audio_url @@ error)
    /\ ppc' = "status225"
    /\ UNCHANGED <<jobs, active_job_id, active_lock, pcm_queue, pushed, dropped,
                   ref_files, audio_files, hvars, wargs, wvars, cjob,
                   pjob, cancelled>>

\* lines 225-227: the two counters are read and the response is sent
job_status_chunks ==
    /\ ppc = "status225"
    /\ presp' = [route |-> "status", code |-> 200,
                 body |-> presp.body
                          @@ "chunks_done" :> jobs[pjob].chunks_done
                          @@ "chunks_total" :> jobs[pjob].chunks_total]
    /\ ppc' = "idle"
    /\ UNCHANGED <<jobs, active_job_id, active_lock, pcm_queue, pushed, dropped,
                   ref_files, audio_files, hvars, wargs, wvars, cjob,
                   pjob, cancelled>>

\* Variant of get_audio: the file is served once, audio_path is reset after
\* send_file
get_audio_once(job_id) ==
    /\ ppc = "idle"
    /\ pjob' = job_id
    /\ IF job_id \notin Created \/ jobs[job_id].audio_path = None
       THEN /\ presp' = NotFoundResp("audio", "Audio not available")
            /\ UNCHANGED jobs
       ELSE /\ presp' = [route |-> "audio", code |-> 200,
                         body |-> audio_files[job_id]]
            /\ SetField(job_id, "audio_path", None)
    /\ UNCHANGED <<active_job_id, active_lock, pcm_queue, pushed, dropped,
                   ref_files, audio_files, hvars, wargs, wvars, cjob,
                   ppc, cancelled>>

\* lines 230-235: 404 for an unknown id or while audio_path is None,
\* otherwise send_file(job["audio_path"])
get_audio(job_id) ==
    /\ ppc = "idle"
    /\ pjob' = job_id
    /\ presp' = IF job_id \notin Created \/ jobs[job_id].audio_path = None
                THEN NotFoundResp("audio", "Audio not available")
                ELSE [route |-> "audio", code |-> 200,
                      body |-> audio_files[job_id]]
    /\ UNCHANGED <<jobs, active_job_id, active_lock, pcm_queue, pushed, dropped,
                   ref_files, audio_files, hvars, wargs, wvars, cjob,
                   ppc, cancelled>>

\* ------------------------------------------------------------------------
\* cancel(): the specification's Cancellation Controller
\* ------------------------------------------------------------------------
\* The client cancels while the worker's loop still has a fragment to start:
\* the cancelled flag is set (remembering chunks_done at that moment) and a
\* non-blocking put releases the stream with the end marker.
cancel(job_id) ==
    /\ job_id \in Created
    /\ cancelled[job_id] = NotCancelled
    /\ wpc[job_id] \in {"loop", "infer", "putpcm", "putsilence"}
    /\ wi[job_id] < total[job_id]
    /\ cancelled' = [cancelled EXCEPT ![job_id] = jobs[job_id].chunks_done]
    /\ IF Len(pcm_queue[job_id]) < QueueMaxsize
       THEN /\ pcm_queue' = [pcm_queue EXCEPT ![job_id] = Append(@, EndMarker)]
            /\ pushed' = [pushed EXCEPT ![job_id] = Append(@, EndMarker)]
       ELSE UNCHANGED <<pcm_queue, pushed>>
    /\ UNCHANGED <<jobs, active_job_id, active_lock, dropped, ref_files,
                   audio_files, hvars, wargs, wvars, cjob, ppc, pjob, presp>>

\* ------------------------------------------------------------------------
\* Specification
\* ------------------------------------------------------------------------
Handler(h) ==
    \/ HCheck(h) \/ HBusyResponse(h) \/ HTextRequired(h)
    \/ HInsert(h) \/ HSetActive(h) \/ HStartThread(h)

Worker(j) ==
    \/ WStart(j) \/ WResolve(j) \/ WEncodeReference(j) \/ WGetPresetVoice(j)
    \/ WSplit(j) \/ WLoop(j) \/ WInfer(j) \/ WPutPcm(j) \/ WPutSilence(j)
    \/ WPutEnd(j) \/ WNoAudioStatus(j) \/ WNoAudioError(j) \/ WJoinProgress(j)
    \/ WJoinWrite(j) \/ WSetAudioPath(j) \/ WSetDone(j)
    \/ WDoneProgress(j) \/ WExceptStatus(j) \/ WExceptError(j)
    \/ WExceptPutEnd(j) \/ WRelease(j)

Consumer(c) == SAttach(c) \/ SGet(c) \/ SIdleTimeout(c)

\* Two submissions that race each other, and their workers
Racers == 1..2

Next ==
    \/ \E h \in Racers : Handler(h)
    \/ \E j \in JobIds : Worker(j)

Spec == Init /\ [][Next]_vars

\* One submission, its worker, and the clients streaming its audio
Submit(h) ==
    \/ HCheck(h) \/ HTextRequired(h) \/ HInsert(h)
    \/ HSetActive(h) \/ HStartThread(h)

NextStream ==
    \/ Submit(1)
    \/ \E j \in JobIds : Worker(j)
    \/ \E c \in Consumers : Consumer(c)

SpecStream == Init /\ [][NextStream]_vars

\* One submission, its worker, and the later submissions that find it busy
\* and hold active_lock while they answer.  The threads are scheduled
\* fairly: a worker that can take a step takes one, and a request that holds
\* the lock leaves its critical section.
Rejected(h) ==
    \/ HCheck(h) /\ hpc'[h] = "busy"
    \/ HBusyResponse(h)

NextBusy ==
    \/ Submit(1)
    \/ \E h \in Requests \ {1} : Rejected(h)
    \/ \E j \in JobIds : Worker(j)

FairSpec ==
    /\ Init /\ [][NextBusy]_vars
    /\ \A j \in JobIds : WF_vars(Worker(j))
    /\ \A h \in Requests : WF_vars(HBusyResponse(h))

\* SpecStream with every attached stream scheduled fairly: its generator
\* either dequeues an item or runs into the 60 second timeout
StreamStep(c) == SGet(c) \/ SIdleTimeout(c)

FairStream ==
    /\ Init /\ [][NextStream]_vars
    /\ \A c \in Consumers : WF_vars(StreamStep(c))

\* One submission, its worker, a client polling job_status() and get_audio()
\* for any id, and a client that may cancel the job
Poller ==
    \/ \E job_id \in JobIds : job_status(job_id) \/ get_audio(job_id)
    \/ job_status_error \/ job_status_chunks

NextPoll ==
    \/ Submit(1)
    \/ \E j \in JobIds : Worker(j)
    \/ Poller
    \/ \E job_id \in JobIds : cancel(job_id)

SpecPoll == Init /\ [][NextPoll]_vars

\* Two jobs one after the other, with the clients of the read endpoints.
\* The first submission is a plain text that splits into no fragment, so
\* its job ends at once with "No audio generated"; the second submission
\* is any request, made when the first worker has finished.  One client
\* polls job_status() and get_audio() for any id at any time; one client
\* streams the first job at any time and the second job once it has ended.
Plain(j) == wargs'[j].voice_id = "" /\ wargs'[j].ref_audio_path = None

NextFrame ==
    \/ Submit(1) /\ Plain(1)
    \/ Worker(1) /\ total'[1] = 0 /\ exc'[1] = None
    \/ wpc[1] = "finished" /\ Submit(2)
    \/ Worker(2)
    \/ Poller
    \/ (Consumer(1) /\ (cjob'[1] = 2 => wpc[2] = "finished"))

SpecFrame == Init /\ [][NextFrame]_vars

\* ------------------------------------------------------------------------
\* Properties
\* ------------------------------------------------------------------------
StatusOf(j) == jobs[j].status
Unfinished == {j \in Created : StatusOf(j) \in {"pending", "processing"}}
Final(j) == j \in Created /\ StatusOf(j) \in {"done", "error"}

\* the segments enqueued before the first end marker
RECURSIVE DataBeforeEnd(_)
DataBeforeEnd(items) ==
    IF items = << >> \/ Head(items) = EndMarker THEN << >>
    ELSE <<Head(items)>> \o DataBeforeEnd(Tail(items))

EndMarkers(items) == Len(SelectSeq(items, LAMBDA x : x = EndMarker))

\* audio 1, silence, audio 2, ..., audio n, end marker
ExpectedStream(n) ==
    [k \in 1..(2 * n) |->
        IF k = 2 * n THEN EndMarker
        ELSE IF k % 2 = 1 THEN Audio((k + 1) \div 2) ELSE Silence]

\* C1: in every reachable state at most one job record is pending or
\* processing.
C1_AtMostOneActive == Cardinality(Unfinished) <= 1

\* C2: a submission that finds the job named by the active slot pending or
\* processing is turned away, its busy response carries that job's current
\* progress, and neither the check nor the response adds a record, changes
\* the slot, changes a record or starts a worker.
C2_BusyRejection ==
    [][\A h \in Requests :
        /\ ( /\ hpc[h] = "new" /\ hpc'[h] # "new"
             /\ active_job_id \in Unfinished )
           => /\ hpc'[h] = "busy"
              /\ UNCHANGED <<jobs, active_job_id, wpc, hjob>>
        /\ hpc[h] = "busy" /\ hpc'[h] # "busy"
           => /\ hpc'[h] = "returned"
              /\ hresp'[h] = [code |-> 503, body |-> "busy", busy |-> TRUE,
                              active_progress |-> jobs[active_job_id].progress,
                              job_id |-> NoJob]
              /\ UNCHANGED <<jobs, active_job_id, wpc, hjob>>
              /\ hjob[h] = NoJob
        /\ hresp'[h].busy /\ ~hresp[h].busy => hpc[h] = "busy"
     ]_vars

C2_Witness ==
    \E h \in Requests :
        /\ hpc[h] = "returned"
        /\ hresp[h].busy
        /\ hresp[h].active_progress[1] = "Generating chunk"
        /\ hjob[h] = NoJob

\* C3: a job's status only moves pending -> processing -> done or error; a
\* new record starts pending.
C3_StatusOrder ==
    [][/\ \A j \in Created :
            /\ j \in DOMAIN jobs'
            /\ \/ jobs'[j].status = jobs[j].status
               \/ <<jobs[j].status, jobs'[j].status>> \in
                    {<<"pending", "processing">>, <<"processing", "done">>,
                     <<"processing", "error">>}
       /\ \A j \in DOMAIN jobs' \ Created : jobs'[j].status = "pending"
     ]_vars

C3_Witness ==
    \E j, k \in Created : StatusOf(j) = "done" /\ StatusOf(k) = "error"

\* C4: every job whose worker has started eventually has status done or
\* error with its worker finished, and once a job is done or error the
\* active slot is eventually not its id.
C4_Terminates ==
    \A j \in JobIds :
        /\ (wpc[j] = "start") ~> (wpc[j] = "finished" /\ Final(j) /\ active_job_id # j)
        /\ Final(j) ~> (active_job_id # j)

C4_Witness ==
    \E j \in Created :
        /\ wpc[j] = "finished" /\ released[j] = "cleared"
        /\ StatusOf(j) = "done" /\ active_job_id = NoJob

\* C5: the release step clears the slot when it names the releasing job and
\* leaves it as it is otherwise.
C5_StaleRelease ==
    [][\A j \in JobIds :
        wpc[j] = "finally" /\ wpc'[j] = "finished"
        => active_job_id' = IF active_job_id = j THEN NoJob ELSE active_job_id
     ]_vars

C5_Witness ==
    \E j, k \in Created :
        /\ j # k
        /\ released[j] = "stale"
        /\ active_job_id = k
        /\ StatusOf(k) \in {"pending", "processing"}

\* C6: a finished worker has enqueued the end marker exactly once, on every
\* path; stated for the workers none of whose puts timed out, so that a push
\* lost to a full queue is not what decides it.
C6_EndMarkerOnce ==
    \A j \in JobIds :
        wpc[j] = "finished" /\ ~dropped[j] => EndMarkers(pushed[j]) = 1

\* C7: a worker in which a step raised ends with status error and the
\* failure's message, has tried to push the end marker, and has released
\* the slot.
C7_RaiseEndsInError ==
    \A j \in Created :
        exc[j] # None =>
            /\ wpc[j] \in {"except", "excepterror", "exceptputend", "finally", "finished"}
            /\ wpc[j] \in {"finally", "finished"}
               => /\ StatusOf(j) = "error"
                  /\ jobs[j].error = exc[j]
                  /\ \/ dropped[j]
                     \/ /\ pushed[j] # << >>
                        /\ pushed[j][Len(pushed[j])] = EndMarker
            /\ wpc[j] = "finished" => active_job_id # j

C7_Witness ==
    \E j \in Created :
        /\ wpc[j] = "finished"
        /\ exc[j] = "sf.write failed"
        /\ jobs[j].error = "sf.write failed"

\* C8: a job whose status is done has chunks_done equal to chunks_total.
C8_DoneAllChunks ==
    \A j \in Created :
        StatusOf(j) = "done" => jobs[j].chunks_done = jobs[j].chunks_total

\* C9: for a done job the segments enqueued before the end marker are the
\* segments of the final file; stated for the jobs none of whose puts timed
\* out, so that a segment lost to a full queue is not what decides it.
C9_StreamEqualsFile ==
    \A j \in Created :
        StatusOf(j) = "done" /\ ~dropped[j]
        => DataBeforeEnd(pushed[j]) = audio_files[j]

\* C10: when all n >= 1 fragments of a job produced audio and no put timed
\* out, chunks_total is n and, from the push of the end marker on, the
\* enqueued items are audio 1, silence, ..., audio n, end marker; a done job
\* is past that push.
AfterEndPush == {"checkwavs", "join", "setpath", "setdone", "doneprogress",
                 "finally", "finished"}

AllAudio(j) == total[j] >= 1 /\ all_wavs[j] = [k \in 1..total[j] |-> k]

C10_FullStream ==
    \A j \in Created :
        /\ StatusOf(j) = "done" => wpc[j] \in AfterEndPush /\ exc[j] = None
        /\ (AllAudio(j) /\ ~dropped[j] /\ exc[j] = None /\ wpc[j] \in AfterEndPush)
           => /\ jobs[j].chunks_total = total[j]
              /\ pushed[j] = ExpectedStream(total[j])

C10_Witness ==
    \E j \in Created :
        /\ StatusOf(j) = "done"
        /\ total[j] = MaxChunks
        /\ AllAudio(j) /\ ~dropped[j]
        /\ pushed[j] = ExpectedStream(MaxChunks)

\* C11: get_audio answers with the audio file only for a job whose status is
\* "done" at the moment of the request; for an unknown id and for a job that
\* is pending, processing or in error it answers not-found, however the
\* request interleaves with the worker.
C11_AudioOnlyWhenDone ==
    [][\A job_id \in JobIds :
         get_audio(job_id) =>
            (presp'.code = 200 <=>
                (job_id \in Created /\ jobs[job_id].status = "done"))]_vars

\* C12: a status query for an id that is not in the registry is answered
\* not-found, never with a payload that has a status field; it creates no
\* record and leaves the registry and the active slot unchanged.
C12_UnknownStatus ==
    [][\A job_id \in JobIds :
         (job_status(job_id) /\ job_id \notin Created) =>
            /\ presp'.code = 404
            /\ "status" \notin DOMAIN presp'.body
            /\ ppc' = "idle"
            /\ UNCHANGED <<jobs, active_job_id>>]_vars

\* an unknown id was queried while a job occupied the slot
C12_Witness ==
    /\ presp.route = "status" /\ presp.code = 404
    /\ ppc = "idle" /\ pjob \notin Created /\ pjob # NoJob
    /\ active_job_id # NoJob

\* C13: a submission whose text is empty after trimming is rejected with a
\* validation error before any job exists: no record is inserted, the active
\* slot is unchanged, no temporary reference file is written and no worker is
\* started; a record is only ever inserted for a non-empty text.
C13_EmptyTextRejected ==
    [][\A h \in Requests :
         /\ HTextRequired(h) =>
               /\ hresp'[h] = TextRequiredResp
               /\ hjob'[h] = NoJob
               /\ UNCHANGED <<jobs, active_job_id, ref_files, wpc, wargs>>
         /\ HInsert(h) => Strip(wargs'[hjob'[h]].text) # ""
         /\ (hpc[h] = "parse" /\ hpc'[h] # "parse") =>
               HTextRequired(h) \/ HInsert(h)]_vars

\* an empty text was answered with the validation error and nothing exists
C13_Witness ==
    \E h \in Requests :
        /\ hpc[h] = "returned" /\ hresp[h] = TextRequiredResp
        /\ Created = {} /\ ref_files = {} /\ active_job_id = NoJob
        /\ \A j \in JobIds : wpc[j] = "unborn"

\* C14: a submission that names an unknown voice is rejected before a job is
\* created: no record is ever inserted for a voice that is not a preset
\* voice, so no job reaches status "error" because of the unknown voice.
C14_UnknownVoiceRejected ==
    \A j \in Created :
        wargs[j].ref_audio_path = None =>
            wargs[j].voice_id \in PresetVoices \cup {""}

\* the message of a job that ended because it was cancelled
CancelledError == "Cancelled"

\* C15: cancelling a job after k of its n fragments have completed makes the
\* worker stop before the remaining fragments: when the worker has finished,
\* chunks_done is at most k+1, the status is "error" with the
\* cancellation-specific message, the end marker was put in the job's queue
\* and the active slot is released.
C15_CancelStopsWorker ==
    \A j \in Created :
        (cancelled[j] # NotCancelled /\ wpc[j] = "finished") =>
            /\ jobs[j].chunks_done <= cancelled[j] + 1
            /\ jobs[j].status = "error"
            /\ jobs[j].error = CancelledError
            /\ EndMarkers(pushed[j]) >= 1
            /\ active_job_id # j

\* C16: in every reachable state a job is pending or processing only if the
\* active slot holds that job's id, the states between the insertion of the
\* record and the assignment of the slot included.
C16_ActiveImpliesSlot ==
    \A j \in Created : IsActive(j) => active_job_id = j

\* C17: a status query that observes a job with status "error" always
\* returns that job's error message, because no reachable state has a job
\* with status "error" and a null error, on either error path.
C17_ErrorHasMessage ==
    /\ \A j \in Created : jobs[j].status = "error" => jobs[j].error # None
    /\ (presp.route = "status" /\ presp.code = 200
            /\ presp.body.status = "error") => "error" \in DOMAIN presp.body

\* C18: once a job's status is "done" or "error", none of its fields status,
\* progress, chunks_total, chunks_done, audio_path and error changes again.
C18_FinalImmutable ==
    [][\A j \in Created :
         jobs[j].status \in {"done", "error"} => jobs'[j] = jobs[j]]_vars

\* C19: audio_path is written at most once and only by the transition to
\* "done": in every reachable state a done job has its audio_path set, a job
\* in error has a null audio_path, audio_path and error are never both set,
\* and a job whose audio_path is set is done or is the worker's next
\* statement away from done; an audio_path that is set never changes.
C19_AudioPathOnce ==
    /\ [](\A j \in Created :
            /\ jobs[j].status = "done" => jobs[j].audio_path # None
            /\ jobs[j].status = "error" => jobs[j].audio_path = None
            /\ ~(jobs[j].audio_path # None /\ jobs[j].error # None)
            /\ jobs[j].audio_path # None =>
                 \/ jobs[j].status = "done"
                 \/ jobs[j].status = "processing" /\ wpc[j] = "setdone")
    /\ [][\A j \in Created :
            jobs[j].audio_path # None =>
                jobs'[j].audio_path = jobs[j].audio_path]_vars

\* one job ended done with its file written and its audio_path set, having
\* gone through the loop; the error paths are reachable too (C3, C7)
C19_Witness ==
    \E j \in Created :
        /\ jobs[j].status = "done" /\ jobs[j].audio_path # None
        /\ jobs[j].error = None /\ audio_files[j] # << >>
        /\ wpc[j] = "finished"

\* C20: in every reachable state 0 <= chunks_done <= chunks_total (both are
\* 0 until chunks_total is recorded), chunks_done never decreases, and a
\* status response never reports more chunks than the record holds, so two
\* successive observations by a poller never see chunks_done decrease.
C20_ChunksMonotone ==
    /\ [](\A j \in Created :
            /\ 0 <= jobs[j].chunks_done
            /\ jobs[j].chunks_done <= jobs[j].chunks_total)
    /\ [](presp.route = "status" /\ presp.code = 200 =>
            /\ 0 <= presp.body.chunks_done
            /\ presp.body.chunks_done <= presp.body.chunks_total
            /\ presp.body.chunks_done <= jobs[pjob].chunks_done)
    /\ [][\A j \in Created :
            jobs'[j].chunks_done >= jobs[j].chunks_done]_vars

\* a poller saw one chunk done of two, and the record now holds two
C20_Witness ==
    /\ presp.route = "status" /\ presp.code = 200
    /\ presp.body.chunks_done = 1 /\ presp.body.chunks_total = 2
    /\ jobs[pjob].chunks_done = 2

\* C21: the worker pushes a silence segment only between two audio segments:
\* whatever the synthesizer calls return, a silence segment is never the last
\* data segment before the end marker; stated for the workers none of whose
\* puts timed out, so that an audio segment lost to a full queue is not what
\* decides it.
C21_SilenceOnlyBetween ==
    \A j \in JobIds :
        ~dropped[j] =>
            \A k \in 2..Len(pushed[j]) :
                pushed[j][k] = EndMarker => pushed[j][k - 1] # Silence

\* C22: for every job whose worker terminates, the end marker was enqueued
\* for a consumer to read, even when earlier pushes timed out: a full queue
\* that no consumer drains does not keep the end marker out of the queue.
C22_EndMarkerDespiteFull ==
    \A j \in JobIds :
        wpc[j] = "finished" => EndMarkers(pushed[j]) >= 1

\* C23: a push of an audio or silence segment that times out on a full queue
\* only drops that segment: the fragment stays counted in chunks_done and
\* stays among the waveforms that are joined into the final file, the job
\* is in error only if some step raised, a worker that finishes without an
\* exception leaves the job done, and a worker that meets a full queue at a
\* push always goes on to finish.
C23_DroppedPushNonFatal ==
    /\ [](\A j \in Created :
            dropped[j] =>
                /\ all_wavs[j] # << >>
                /\ jobs[j].chunks_done = all_wavs[j][Len(all_wavs[j])]
                /\ StatusOf(j) = "error" => exc[j] # None
                /\ (wpc[j] = "finished" /\ exc[j] = None) =>
                      StatusOf(j) = "done" /\ jobs[j].audio_path # None)
    /\ \A j \in JobIds :
          (wpc[j] \in {"putpcm", "putsilence"}
              /\ Len(pcm_queue[j]) = QueueMaxsize) ~> (wpc[j] = "finished")

\* the push of the last fragment's audio found the queue full: the job is
\* done, every fragment is counted and joined, and the stream lacks it
C23_Witness ==
    \E j \in Created :
        /\ wpc[j] = "finished" /\ dropped[j] /\ StatusOf(j) = "done"
        /\ total[j] = MaxChunks /\ AllAudio(j)
        /\ jobs[j].chunks_done = MaxChunks
        /\ \A k \in 1..Len(pushed[j]) : pushed[j][k] # Audio(MaxChunks)

\* C24: every stream consumer attached to a known job eventually terminates;
\* it ends on reading the end marker and otherwise on the idle timeout with
\* the queue empty (also when the end marker was consumed before it attached
\* or was never enqueued), and the stream that reads the end marker is over:
\* it dequeues and forwards nothing more.
C24_ConsumerTerminates ==
    /\ \A c \in Consumers : (cjob[c] # NoJob) ~> (cjob[c] = NoJob)
    /\ [][\A c \in Consumers :
            /\ (SGet(c) /\ Head(pcm_queue[cjob[c]]) = EndMarker) =>
                  cjob'[c] = NoJob
            /\ (cjob[c] # NoJob /\ cjob'[c] = NoJob) =>
                  \/ pcm_queue[cjob[c]] = << >> /\ UNCHANGED pcm_queue
                  \/ /\ pcm_queue[cjob[c]] # << >>
                     /\ Head(pcm_queue[cjob[c]]) = EndMarker]_vars

\* a stream read the end marker of a finished job and ended, and a stream
\* that attached afterwards waits on the empty queue for its timeout
C24_Witness ==
    \E j \in Created : \E c \in Consumers :
        /\ wpc[j] = "finished" /\ EndMarkers(pushed[j]) >= 1
        /\ pcm_queue[j] = << >>
        /\ cjob[c] = j
        /\ \A d \in Consumers \ {c} : cjob[d] = NoJob

\* C25: when a job is submitted with an uploaded reference audio, the
\* temporary reference file no longer exists once the worker has finished,
\* whether encoding the reference succeeded or raised.
C25_RefFileDeleted ==
    \A j \in JobIds : wpc[j] = "finished" => j \notin ref_files

\* C26: if no fragment produces a non-empty waveform (a text that splits
\* into zero fragments included), the job ends with status error and the
\* message "No audio generated", audio_path stays null, chunks_done stays 0,
\* the end marker is enqueued, and the admission slot is released.
C26_NoAudioGenerated ==
    \A j \in Created :
        (wpc[j] = "finished" /\ exc[j] = None /\ all_wavs[j] = << >>) =>
            /\ StatusOf(j) = "error"
            /\ jobs[j].error = "No audio generated"
            /\ jobs[j].audio_path = None
            /\ jobs[j].chunks_done = 0
            /\ pushed[j] = <<EndMarker>>
            /\ active_job_id # j

\* every fragment of a job came back without audio and the job ended so
C26_Witness ==
    \E j \in Created :
        /\ wpc[j] = "finished" /\ exc[j] = None /\ all_wavs[j] = << >>
        /\ total[j] = MaxChunks /\ wi[j] = MaxChunks
        /\ jobs[j].error = "No audio generated"

\* C27: the status, audio and stream handlers never change a field of a job
\* record, the set of registry keys or the active slot; a record's status,
\* progress, counters, audio_path and error are written only by the
\* submission handler, when it creates the record, and by that job's own
\* worker, and a worker never writes another job's record.
C27_OnlyOwnerWrites ==
    [][/\ (Poller \/ \E c \in Consumers : Consumer(c)) =>
              UNCHANGED <<jobs, active_job_id>>
       /\ \A j \in JobIds :
              Worker(j) =>
                  /\ DOMAIN jobs' = DOMAIN jobs
                  /\ \A k \in Created \ {j} : jobs'[k] = jobs[k]
       /\ \A h \in Requests :
              Handler(h) =>
                  /\ \A k \in Created : jobs'[k] = jobs[k]
                  /\ \A k \in DOMAIN jobs' \ Created : jobs'[k] = NewJob
       /\ jobs' # jobs =>
              \/ \E h \in Requests : HInsert(h)
              \/ \E j \in JobIds : Worker(j)]_vars

\* both records exist, the second job's worker has written its record to
\* done beside the first job's error, and the clients have fetched the
\* second job's audio and attached a stream to it
C27_Witness ==
    /\ Created = {1, 2}
    /\ StatusOf(1) = "error" /\ StatusOf(2) = "done"
    /\ presp.route = "audio" /\ presp.code = 200 /\ pjob = 2
    /\ cjob[1] = 2

\* C28: the registry only grows: a job id inserted by an admitted submission
\* stays in the registry in every later state, whatever the job's final
\* status, so every id returned by a submission is in the registry and a
\* status query for a registered id is never answered not-found.
C28_RegistryOnlyGrows ==
    /\ [](\A h \in Requests :
            hresp[h].body = "job_id" => hresp[h].job_id \in Created)
    /\ [][/\ Created \subseteq DOMAIN jobs'
          /\ \A job_id \in Created :
                job_status(job_id) => presp'.code # 404 /\ ppc' # "idle"]_vars

\* both jobs are final, one in error and one done, both ids were returned by
\* their submissions, and the last status query for the first was answered
C28_Witness ==
    /\ Created = {1, 2}
    /\ StatusOf(1) = "error" /\ StatusOf(2) = "done"
    /\ wpc[1] = "finished" /\ wpc[2] = "finished"
    /\ hresp[1].job_id = 1 /\ hresp[2].job_id = 2
    /\ presp.route = "status" /\ presp.code = 200 /\ pjob = 1
    /\ presp.body.status = "error"

\* C29: for every job, once the end marker has been enqueued the worker
\* enqueues no further audio or silence segment: in the order of the pushes
\* to the job's queue every data segment precedes every end marker.
C29_NoDataAfterEnd ==
    \A j \in JobIds :
        \A k \in 1..Len(pushed[j]) : \A m \in 1..Len(pushed[j]) :
            (pushed[j][k] = EndMarker /\ k < m) => pushed[j][m] = EndMarker

\* data was enqueued, then the end marker, and the worker went on to the
\* steps after the loop: here the write failed and the handler pushed again
C29_Witness ==
    \E j \in Created :
        /\ wpc[j] = "finished" /\ exc[j] = "sf.write failed"
        /\ Len(pushed[j]) >= 3
        /\ pushed[j][1] = Audio(1)
        /\ pushed[j][Len(pushed[j])] = EndMarker

\* C30: when two stream consumers are attached to the same job at the same
\* time, each of them receives the terminal signal and no segment dequeued
\* by one is lost to the other: whatever one consumer dequeues (segment or
\* end marker) is still there for the other attached consumer to read.
C30_EachConsumerSeesAll ==
    [][\A c1 \in Consumers : \A c2 \in Consumers :
          (/\ c1 # c2
           /\ cjob[c1] # NoJob
           /\ cjob[c2] = cjob[c1]
           /\ SGet(c1))
          => \E k \in 1..Len(pcm_queue'[cjob[c1]]) :
                pcm_queue'[cjob[c1]][k] = Head(pcm_queue[cjob[c1]])]_vars
====
